---- MODULE Spec2Model ----
(***************************************************************************)
(* templao: a template compiler (parse), an instantiation walker           *)
(* (instantiateParts) and a part / expression runtime (TemplatePart,       *)
(* StaticExpression, DynamicExpression), modelled from src/src/index.js.   *)
(*                                                                         *)
(* Strings are sequences of one-character strings, so that the regular     *)
(* expressions, trim, split and substring act on characters.  The DOM is a *)
(* heap of node records indexed by node id; a node reference is an id.     *)
(***************************************************************************)
EXTENDS Integers, Sequences, FiniteSets

VARIABLES
  dom,          \* the DOM heap: dom[id] is the node with that id
  pc,           \* position of parse(): "text", "attrs", "next", "remove", "done"
  node,         \* parse(): let node (a node id, 0 for null)
  nodeIndex,    \* parse(): let nodeIndex
  parts,        \* parse(): const parts, later Template._parts
  emptyNodes,   \* parse(): const emptyNodes
  attrNames,    \* parseAttributes(): the array getAttributeNames() returned
  attrPos,      \* parseAttributes(): position of forEach in attrNames
  exprLast,     \* expressionMatcher.lastIndex
  execLast,     \* executableExpression.lastIndex
  staleScan,    \* history: some exec() scan was started with lastIndex # 0
  registered,   \* history: the addPart calls of parse(), in order
  limit,        \* the number of instances the caller creates at most
  instances,    \* the TemplateInstances created so far, in creation order
  latest,       \* history: per instance, key -> value most recently supplied
  lastCall,     \* history: what the last update() call did (fresh: the parts
                \* it was the first to call with one of their keys)
  tick,         \* history: parity of the number of update() calls
  original      \* history: the tree new Template() was given, before parse

vars == <<dom, pc, node, nodeIndex, parts, emptyNodes, attrNames, attrPos,
          exprLast, execLast, staleScan, registered, limit, instances, latest,
          lastCall, tick, original>>

(***************************************************************************)
(* Bounds of the model.                                                    *)
(***************************************************************************)
MaxNodes == 3          \* nodes of a source tree below the fragment root
MaxPlaceholders == 2   \* placeholders in one source text node
MaxExprLen == 4        \* characters of an expression in the expression scenario
MaxInstances == 2      \* instances of one template, where instances are compared
MaxWalkNodes == 2      \* nodes of a source tree where termination is checked
MaxAttrs == 2          \* attributes of the element in the attribute scenario
RunInstances == 1      \* instances of one template in the runtime scenario

(***************************************************************************)
(* Strings.                                                                *)
(***************************************************************************)
Chars(s) == {s[i] : i \in 1..Len(s)}

\* s.substring(from) with a 0-based index
SubstringFrom(s, from) == SubSeq(s, from + 1, Len(s))

\* s.substring(from, to) with 0-based indices, to exclusive
Substring(s, from, to) == SubSeq(s, from + 1, to)

IsSpace(c) == c = " "

RECURSIVE TrimStart(_)
TrimStart(s) ==
  IF s # <<>> /\ IsSpace(Head(s)) THEN TrimStart(Tail(s)) ELSE s

RECURSIVE TrimEnd(_)
TrimEnd(s) ==
  IF s # <<>> /\ IsSpace(s[Len(s)]) THEN TrimEnd(SubSeq(s, 1, Len(s) - 1)) ELSE s

\* String.prototype.trim
Trim(s) == TrimEnd(TrimStart(s))

\* String.prototype.split(c): the pieces between the occurrences of c
RECURSIVE SplitAcc(_, _, _)
SplitAcc(s, c, cur) ==
  IF s = <<>> THEN <<cur>>
  ELSE IF Head(s) = c THEN <<cur>> \o SplitAcc(Tail(s), c, <<>>)
  ELSE SplitAcc(Tail(s), c, Append(cur, Head(s)))

Split(s, c) == SplitAcc(s, c, <<>>)

(***************************************************************************)
(* The two global regular expressions.  exec() of a /g expression starts   *)
(* at lastIndex (0-based), answers the leftmost match at or after it and   *)
(* sets lastIndex to the end of the match, or answers null and sets        *)
(* lastIndex to 0.  A result is [found, index, match, group1, group2,      *)
(* lastIndex].                                                             *)
(***************************************************************************)
NoMatch == [found |-> FALSE, index |-> 0, match |-> <<>>, group1 |-> <<>>,
            group2 |-> <<>>, lastIndex |-> 0]

\* /\{([\s\S]+?)\}/g : "{", one or more characters (as few as possible), "}"
expressionMatcherExec(s, last) ==
  LET starts == {i \in (last + 1)..Len(s) :
                   /\ s[i] = "{"
                   /\ \E j \in (i + 2)..Len(s) : s[j] = "}"}
  IN IF starts = {} THEN NoMatch
     ELSE LET i == CHOOSE a \in starts : \A b \in starts : a <= b
              j == CHOOSE a \in (i + 2)..Len(s) :
                     /\ s[a] = "}"
                     /\ \A b \in (i + 2)..(a - 1) : s[b] # "}"
          IN [found |-> TRUE, index |-> i - 1, match |-> SubSeq(s, i, j),
              group1 |-> SubSeq(s, i + 1, j - 1), group2 |-> <<>>,
              lastIndex |-> j]

\* /([\s\S]+?)\(([\s|\S]*?)\)/g : one or more characters (as few as possible),
\* "(", any characters (as few as possible), ")"
executableExpressionExec(s, last) ==
  LET opens == {i \in (last + 2)..Len(s) :
                  /\ s[i] = "("
                  /\ \E j \in (i + 1)..Len(s) : s[j] = ")"}
  IN IF opens = {} THEN NoMatch
     ELSE LET i == CHOOSE a \in opens : \A b \in opens : a <= b
              j == CHOOSE a \in (i + 1)..Len(s) :
                     /\ s[a] = ")"
                     /\ \A b \in (i + 1)..(a - 1) : s[b] # ")"
          IN [found |-> TRUE, index |-> last, match |-> SubSeq(s, last + 1, j),
              group1 |-> SubSeq(s, last + 1, i - 1),
              group2 |-> SubSeq(s, i + 1, j - 1), lastIndex |-> j]

(***************************************************************************)
(* JavaScript values.                                                      *)
(***************************************************************************)
Undefined == [t |-> "undefined"]
NaN == [t |-> "NaN"]
Sym == [t |-> "symbol"]        \* a Symbol() made by a constructor of the runtime
Str(s) == [t |-> "string", s |-> s]
Num(n) == [t |-> "number", n |-> n]
Bool(b) == [t |-> "boolean", b |-> b]
Fn(name) == [t |-> "function", name |-> name]

\* a !== b is ~StrictEquals(a, b): NaN is not equal to itself
StrictEquals(a, b) == a = b /\ a # NaN

\* ToBoolean
Truthy(v) ==
  CASE v.t = "undefined" -> FALSE
    [] v.t = "NaN" -> FALSE
    [] v.t = "string" -> v.s # <<>>
    [] v.t = "number" -> v.n # 0
    [] v.t = "boolean" -> v.b
    [] OTHER -> TRUE

Digit(n) == <<"0", "1", "2", "3", "4", "5", "6", "7", "8", "9">>[n + 1]

RECURSIVE Digits(_)
Digits(n) == IF n < 10 THEN <<Digit(n)>> ELSE Append(Digits(n \div 10), Digit(n % 10))

\* ToString, as the DOM applies it to what textContent and setAttribute are given
ToString(v) ==
  CASE v.t = "string" -> v.s
    [] v.t = "number" -> IF v.n < 0 THEN <<"-">> \o Digits(0 - v.n) ELSE Digits(v.n)
    [] v.t = "NaN" -> <<"N", "a", "N">>
    [] v.t = "boolean" -> IF v.b THEN <<"t", "r", "u", "e">> ELSE <<"f", "a", "l", "s", "e">>
    [] v.t = "undefined" -> <<"u", "n", "d", "e", "f", "i", "n", "e", "d">>
    [] OTHER -> <<"?">>

\* the i-th positional argument of a call, undefined past the end
Arg(args, i) == IF i <= Len(args) THEN args[i] ELSE Undefined

\* The functions a context supplies: add is (a, b) => a + b and sub is
\* (a, b) => a - b, on numbers, undefined and NaN.
Call(f, args) ==
  LET a == Arg(args, 1)
      b == Arg(args, 2)
  IN IF a.t = "number" /\ b.t = "number"
     THEN IF f.name = "add" THEN Num(a.n + b.n) ELSE Num(a.n - b.n)
     ELSE NaN

(***************************************************************************)
(* Expressions (index.js 72-138).                                          *)
(***************************************************************************)
\* An object's own properties kept in insertion order: a sequence of
\* [key, value] with distinct keys.
HasKey(store, key) == \E i \in 1..Len(store) : store[i].key = key

Get(store, key) ==
  IF HasKey(store, key)
  THEN store[CHOOSE i \in 1..Len(store) : store[i].key = key].value
  ELSE Undefined

Put(store, key, value) ==
  IF HasKey(store, key)
  THEN [i \in 1..Len(store) |->
          IF store[i].key = key THEN [key |-> key, value |-> value] ELSE store[i]]
  ELSE Append(store, [key |-> key, value |-> value])

IsDigit(c) == c \in {"0", "1", "2", "3", "4", "5", "6", "7", "8", "9"}

DigitValue(c) == CHOOSE n \in 0..9 : Digit(n) = c

\* an array index key ("0", "1", "12", ...): such own properties are
\* enumerated first, in ascending numeric order
IsIndexKey(key) ==
  /\ key # <<>>
  /\ \A i \in 1..Len(key) : IsDigit(key[i])
  /\ Len(key) > 1 => key[1] # "0"

RECURSIVE KeyNumber(_)
KeyNumber(key) ==
  IF key = <<>> THEN 0
  ELSE 10 * KeyNumber(SubSeq(key, 1, Len(key) - 1)) + DigitValue(key[Len(key)])

RECURSIVE SortedIndexEntries(_)
SortedIndexEntries(entries) ==
  IF entries = {} THEN <<>>
  ELSE LET e == CHOOSE a \in entries :
                  \A b \in entries : KeyNumber(a.key) <= KeyNumber(b.key)
       IN <<e>> \o SortedIndexEntries(entries \ {e})

\* Object.values(store)
ObjectValues(store) ==
  LET indexed == {store[i] : i \in {j \in 1..Len(store) : IsIndexKey(store[j].key)}}
      named == SelectSeq(store, LAMBDA e : ~IsIndexKey(e.key))
      order == SortedIndexEntries(indexed) \o named
  IN [i \in 1..Len(order) |-> order[i].value]

\* DynamicExpression._initParamsStore
RECURSIVE InitParamsStoreFrom(_, _)
InitParamsStoreFrom(params, store) ==
  IF params = <<>> THEN store
  ELSE InitParamsStoreFrom(Tail(params), Put(store, Head(params), Undefined))

initParamsStore(params) == InitParamsStoreFrom(params, <<>>)

\* new StaticExpression(expression)
StaticExpression(expression) ==
  [kind |-> "static", expression |-> expression, value |-> Sym]

\* new DynamicExpression(functionName, params)
DynamicExpression(functionName, params) ==
  [kind |-> "dynamic", functionName |-> functionName, params |-> params,
   function |-> Sym, paramsStore |-> initParamsStore(params)]

\* createExpression(expression) with executableExpression.lastIndex = last:
\* the evaluator and the lastIndex the call leaves behind
TrimAll(ps) == [i \in 1..Len(ps) |-> Trim(ps[i])]

\* a createExpression without "executableExpression.lastIndex = 0"
expressionForKeepingCursor(expression, search) ==
  IF ~search.found
  THEN [expr |-> StaticExpression(expression), lastIndex |-> search.lastIndex]
  ELSE [expr |-> DynamicExpression(Trim(search.group1),
                                   TrimAll(Split(search.group2, ","))),
        lastIndex |-> search.lastIndex]

expressionFor(expression, search) ==
  IF ~search.found
  THEN [expr |-> StaticExpression(expression), lastIndex |-> search.lastIndex]
  ELSE [expr |-> DynamicExpression(Trim(search.group1),
                                   TrimAll(Split(search.group2, ","))),
        lastIndex |-> 0]

createExpression(expression, last) ==
  expressionFor(expression, executableExpressionExec(expression, last))

\* key in context
In(key, context) == key \in DOMAIN context

Range(seq) == {seq[i] : i \in 1..Len(seq)}

\* the keys an evaluator looks up in a context
KeysOf(e) ==
  IF e.kind = "static" THEN {e.expression}
  ELSE {e.functionName} \cup Range(e.params)

\* StaticExpression.changed / DynamicExpression.changed
paramsChanged(e, context) ==
  \E i \in 1..Len(e.params) :
    /\ In(e.params[i], context)
    /\ ~StrictEquals(Get(e.paramsStore, e.params[i]), context[e.params[i]])

functionChanged(e, context) ==
  In(e.functionName, context) /\ ~StrictEquals(e.function, context[e.functionName])

changed(e, context) ==
  IF e.kind = "static"
  THEN In(e.expression, context) /\ ~StrictEquals(e.value, context[e.expression])
  ELSE paramsChanged(e, context) \/ functionChanged(e, context)

\* DynamicExpression._updateParams
RECURSIVE UpdateParamsFrom(_, _, _)
UpdateParamsFrom(params, store, context) ==
  IF params = <<>> THEN store
  ELSE UpdateParamsFrom(
         Tail(params),
         Put(store, Head(params),
             IF In(Head(params), context) THEN context[Head(params)]
             ELSE Get(store, Head(params))),
         context)

\* an _updateParams that forgets the parameters a patch omits
updateParamsResetting(e, context) ==
  [i \in 1..Len(e.paramsStore) |->
     [key |-> e.paramsStore[i].key,
      value |-> IF In(e.paramsStore[i].key, context)
                THEN context[e.paramsStore[i].key] ELSE Undefined]]

updateParams(e, context) == UpdateParamsFrom(e.params, e.paramsStore, context)

\* DynamicExpression._updateFunction
updateFunction(e, context) ==
  IF In(e.functionName, context) THEN context[e.functionName] ELSE e.function

\* the arguments getValue hands to the stored function
callArguments(store) == ObjectValues(store)

\* this._function.apply(null, args) on the evaluator e: a TypeError when the
\* stored function is still the Symbol of the constructor
applyFunction(e, args) ==
  IF e.function.t # "function"
  THEN [expr |-> e, threw |-> TRUE, value |-> Undefined, called |-> FALSE,
        args |-> <<>>]
  ELSE [expr |-> e, threw |-> FALSE, value |-> Call(e.function, args),
        called |-> TRUE, args |-> args]

\* the last line of DynamicExpression.getValue, on the updated evaluator
invoke(e) == applyFunction(e, callArguments(e.paramsStore))

\* getValue(context): [expr: the evaluator afterwards, threw: whether the call
\* raised a TypeError (this._function.apply is not a function), value: the
\* value returned, called: whether a function was invoked, args: its arguments]
getValue(e, context) ==
  IF e.kind = "static"
  THEN [expr |-> [e EXCEPT !.value = context[e.expression]], threw |-> FALSE,
        value |-> context[e.expression], called |-> FALSE, args |-> <<>>]
  ELSE invoke([e EXCEPT !.paramsStore = updateParams(e, context),
                        !.function = updateFunction(e, context)])

(***************************************************************************)
(* The host tree (the DOM the program runs on).  A node is                 *)
(*   [nodeType, data, attrs, props, kids, parent, cloneOf]                 *)
(* with data the character data of a text node, attrs the attributes in    *)
(* document order as [name, value], props the properties the program has   *)
(* assigned on the node object, kids the child ids in order, parent the    *)
(* parent id (0: none) and cloneOf the id of the node importNode copied    *)
(* it from (0: not a copy; history only).                                  *)
(***************************************************************************)
NewNode(nodeType, data, attrs, parent) ==
  [nodeType |-> nodeType, data |-> data, attrs |-> attrs, props |-> <<>>,
   kids |-> <<>>, parent |-> parent, cloneOf |-> 0]

IndexOf(seq, x) == CHOOSE i \in 1..Len(seq) : seq[i] = x

InsertAfter(seq, x, y) ==
  LET i == IndexOf(seq, x)
  IN SubSeq(seq, 1, i) \o <<y>> \o SubSeq(seq, i + 1, Len(seq))

Without(seq, x) == SelectSeq(seq, LAMBDA y : y # x)

\* n.splitText(offset): n keeps the first offset characters, a new text node
\* with the rest becomes its next sibling.  The new node's id is Len(d) + 1.
splitText(d, n, offset) ==
  LET new == Len(d) + 1
      rest == NewNode("text", SubstringFrom(d[n].data, offset), <<>>, d[n].parent)
      d1 == [d EXCEPT ![n].data = Substring(d[n].data, 0, offset)]
      d2 == IF d[n].parent = 0 THEN d1
            ELSE [d1 EXCEPT ![d[n].parent].kids = InsertAfter(@, n, new)]
  IN Append(d2, rest)

\* n.textContent = s on a text node
setTextContent(d, n, s) == [d EXCEPT ![n].data = s]

\* n.remove()
removeNode(d, n) ==
  IF d[n].parent = 0 THEN d
  ELSE [d EXCEPT ![d[n].parent].kids = Without(@, n), ![n].parent = 0]

hasAttribute(d, n, name) == \E i \in 1..Len(d[n].attrs) : d[n].attrs[i].name = name

\* n.getAttributeNames()
getAttributeNames(d, n) == [i \in 1..Len(d[n].attrs) |-> d[n].attrs[i].name]

\* n.getAttribute(name)
getAttribute(d, n, name) ==
  d[n].attrs[CHOOSE i \in 1..Len(d[n].attrs) : d[n].attrs[i].name = name].value

\* n.removeAttribute(name)
removeAttribute(d, n, name) ==
  [d EXCEPT ![n].attrs = SelectSeq(@, LAMBDA a : a.name # name)]

\* n.setAttribute(name, s)
setAttribute(d, n, name, s) ==
  IF hasAttribute(d, n, name)
  THEN [d EXCEPT ![n].attrs =
          [i \in 1..Len(@) |-> IF @[i].name = name
                               THEN [name |-> name, value |-> s] ELSE @[i]]]
  ELSE [d EXCEPT ![n].attrs = Append(@, [name |-> name, value |-> s])]

\* n.toggleAttribute(name, force)
toggleAttribute(d, n, name, force) ==
  IF force
  THEN IF hasAttribute(d, n, name) THEN d ELSE setAttribute(d, n, name, <<>>)
  ELSE removeAttribute(d, n, name)

\* n[name] = value
setProperty(d, n, name, value) == [d EXCEPT ![n].props = Put(@, name, value)]

\* the nodes of the subtree of n in document (pre-) order
RECURSIVE Preorder(_, _)
RECURSIVE PreorderAll(_, _)
Preorder(d, n) == <<n>> \o PreorderAll(d, d[n].kids)
PreorderAll(d, ns) ==
  IF ns = <<>> THEN <<>> ELSE Preorder(d, Head(ns)) \o PreorderAll(d, Tail(ns))

\* nodeFilter = SHOW_ELEMENT | SHOW_TEXT
nodeFilter(d, n) == d[n].nodeType \in {"element", "text"}

\* a walker whose nextNode() stays on the current node
nextNodeStaying(d, root, cur) == cur

\* walker.nextNode() of a TreeWalker on root whose currentNode is cur: the
\* next node in document order inside root that the filter shows (0: null)
nextNode(d, root, cur) ==
  LET order == Preorder(d, root)
      after == SubSeq(order, IndexOf(order, cur) + 1, Len(order))
      shown == SelectSeq(after, LAMBDA n : nodeFilter(d, n))
  IN IF shown = <<>> THEN 0 ELSE Head(shown)

\* every node the loop "node = walker.currentNode; while (node) { ...;
\* node = walker.nextNode() }" visits on a tree it does not change, in order
Walk(d, root) ==
  <<root>> \o SelectSeq(Tail(Preorder(d, root)), LAMBDA n : nodeFilter(d, n))

\* an importNode that hands back the tree itself instead of a copy
importNodeShared(d, root) == [dom |-> d, content |-> root]

\* document.importNode(root, true): a deep copy of the subtree of root, made
\* of new nodes appended to the heap; attributes and data are copied,
\* properties of the node objects are not.  The copy of root is Len(d) + 1.
importNode(d, root) ==
  LET order == Preorder(d, root)
      base == Len(d)
      copyId(n) == base + IndexOf(order, n)
      copy(n) ==
        [nodeType |-> d[n].nodeType, data |-> d[n].data, attrs |-> d[n].attrs,
         props |-> <<>>,
         kids |-> [i \in 1..Len(d[n].kids) |-> copyId(d[n].kids[i])],
         parent |-> IF n = root THEN 0 ELSE copyId(d[n].parent),
         cloneOf |-> n]
  IN [dom |-> d \o [j \in 1..Len(order) |-> copy(order[j])], content |-> base + 1]

\* super() of a DocumentFragment subclass followed by this.append(content):
\* a new fragment (id Len(d) + 1) takes over the children of content
appendContent(d, content) ==
  LET this == Len(d) + 1
      moved == d[content].kids
      d1 == [n \in 1..Len(d) |->
               IF n = content THEN [d[n] EXCEPT !.kids = <<>>]
               ELSE IF d[n].parent = content THEN [d[n] EXCEPT !.parent = this]
               ELSE d[n]]
  IN [dom |-> Append(d1, [NewNode("fragment", <<>>, <<>>, 0) EXCEPT !.kids = moved]),
      this |-> this]

(***************************************************************************)
(* Parts (index.js 42-70, 140-186, 212-238).                               *)
(***************************************************************************)
textNode == 1
property == 2
attribute == 3
booleanAttribute == 4

\* new NodePart / PropertyPart / AttributePart / BooleanAttributePart
\* (node, params) for a descriptor, with executableExpression.lastIndex = last.
\* fed is history: update() was called on the part with one of its keys
newPart(n, descriptor, created) ==
  [part |-> [type |-> descriptor.type, node |-> n, expression |-> created.expr,
             value |-> Sym, name |-> descriptor.name, fed |-> FALSE],
   lastIndex |-> created.lastIndex]

instantiatePart(n, descriptor, last) ==
  newPart(n, descriptor, createExpression(descriptor.expression, last))

\* _cast of the part's class
cast(type, value) ==
  CASE type = textNode -> IF Truthy(value) THEN value ELSE Str(<<>>)
    [] type = attribute -> IF Truthy(value) THEN value ELSE Str(<<>>)
    [] type = booleanAttribute -> Bool(Truthy(value))
    [] OTHER -> value

\* _applyChanges of the part's class
applyChanges(part, d, value) ==
  CASE part.type = textNode -> setTextContent(d, part.node, ToString(value))
    [] part.type = attribute -> setAttribute(d, part.node, part.name, ToString(value))
    [] part.type = booleanAttribute -> toggleAttribute(d, part.node, part.name, value.b)
    [] OTHER -> setProperty(d, part.node, part.name, value)

\* the body of "if (value !== this._value)" in TemplatePart.update
applyIfNew(part, d, got, value) ==
  IF ~StrictEquals(value, part.value)
  THEN [part |-> [part EXCEPT !.expression = got.expr, !.value = value],
        dom |-> applyChanges(part, d, value), mutated |-> TRUE,
        threw |-> FALSE, called |-> got.called, args |-> got.args]
  ELSE [part |-> [part EXCEPT !.expression = got.expr], dom |-> d,
        mutated |-> FALSE, threw |-> FALSE, called |-> got.called,
        args |-> got.args]

\* TemplatePart.update once getValue has answered got
applyValue(part, d, got) ==
  IF got.threw
  THEN [part |-> [part EXCEPT !.expression = got.expr], dom |-> d,
        mutated |-> FALSE, threw |-> TRUE, called |-> FALSE, args |-> <<>>]
  ELSE applyIfNew(part, d, got, cast(part.type, got.value))

\* TemplatePart.update(context): [part, dom, mutated: _applyChanges ran,
\* threw: a TypeError left the method, called, args: the function call made]
updatePart(part, d, context) ==
  IF ~changed(part.expression, context)
  THEN [part |-> part, dom |-> d, mutated |-> FALSE, threw |-> FALSE,
        called |-> FALSE, args |-> <<>>]
  ELSE applyValue(part, d, getValue(part.expression, context))

\* history: the part once update(context) has been called on it
Fed(part, context) ==
  [part EXCEPT !.fed = @ \/ (KeysOf(part.expression) \cap DOMAIN context # {})]

\* TemplateInstance.update(context): this._parts.forEach(part => part.update(context)),
\* from part k on.  An exception ends the forEach: the parts after the one
\* that threw are not visited.  muts lists the parts that mutated their node
\* and calls the function calls made, both in order; visited is the number of
\* parts whose update was called.
RECURSIVE UpdateFrom(_, _, _, _, _, _)
RECURSIVE UpdateAfter(_, _, _, _, _, _)
UpdateFrom(ps, d, context, k, muts, calls) ==
  IF k > Len(ps)
  THEN [parts |-> ps, dom |-> d, threw |-> FALSE, muts |-> muts, calls |-> calls,
        visited |-> Len(ps)]
  ELSE UpdateAfter(ps, context, k, muts, calls,
                   updatePart(Fed(ps[k], context), d, context))

\* the forEach after part k answered r
UpdateAfter(ps, context, k, muts, calls, r) ==
  IF r.threw
  THEN [parts |-> [ps EXCEPT ![k] = r.part], dom |-> r.dom, threw |-> TRUE,
        muts |-> muts, calls |-> calls, visited |-> k]
  ELSE UpdateFrom([ps EXCEPT ![k] = r.part], r.dom, context, k + 1,
                  IF r.mutated THEN Append(muts, k) ELSE muts,
                  IF r.called
                  THEN Append(calls, [part |-> k,
                                      function |-> r.part.expression.function,
                                      args |-> r.args])
                  ELSE calls)

update(ps, d, context) == UpdateFrom(ps, d, context, 1, <<>>, <<>>)

\* parts[nodeIndex] || []
PartsAt(table, index) == IF index \in DOMAIN table THEN table[index] ELSE <<>>

\* an instantiateParts whose walk hands every descriptor the last node
RECURSIVE BindingsFromStuck(_, _, _)
BindingsFromStuck(walk, table, k) ==
  IF k > Len(walk) THEN <<>>
  ELSE LET here == PartsAt(table, k - 1)
       IN [i \in 1..Len(here) |-> [node |-> walk[Len(walk)], descriptor |-> here[i]]]
          \o BindingsFromStuck(walk, table, k + 1)

\* the (node, descriptor) pairs in the order instantiateParts creates parts:
\* the nodes of the walk from position k on, each with the descriptors
\* registered under its position
RECURSIVE BindingsFrom(_, _, _)
BindingsFrom(walk, table, k) ==
  IF k > Len(walk) THEN <<>>
  ELSE LET here == PartsAt(table, k - 1)
       IN [i \in 1..Len(here) |-> [node |-> walk[k], descriptor |-> here[i]]]
          \o BindingsFrom(walk, table, k + 1)

\* the part constructors run on the bindings in order; each createExpression
\* starts from the lastIndex the previous one left.  stale: a scan started
\* with lastIndex # 0
RECURSIVE InstantiateFrom(_, _, _, _)
RECURSIVE InstantiateAfter(_, _, _, _)
InstantiateFrom(bindings, last, acc, stale) ==
  IF bindings = <<>> THEN [parts |-> acc, lastIndex |-> last, stale |-> stale]
  ELSE InstantiateAfter(Tail(bindings), acc, stale \/ last # 0,
                        instantiatePart(Head(bindings).node,
                                        Head(bindings).descriptor, last))

\* the loop after a part constructor answered r
InstantiateAfter(bindings, acc, stale, r) ==
  InstantiateFrom(bindings, r.lastIndex, Append(acc, r.part), stale)

\* instantiateParts(content, parts)
instantiateParts(d, content, table, last) ==
  InstantiateFrom(BindingsFrom(Walk(d, content), table, 1), last, <<>>, FALSE)

(***************************************************************************)
(* Source trees.  A source is the list of the nodes below the fragment     *)
(* root in document order, each [depth, nodeType, data, attrs] (depth 1: a *)
(* child of the root).  Node j of the list gets id j + 1; the root is 1.   *)
(***************************************************************************)
content == 1     \* template.content, the fragment every walk starts from

ParentIndex(items, j) ==
  IF items[j].depth = 1 THEN 0
  ELSE CHOOSE i \in 1..(j - 1) :
         /\ items[i].depth = items[j].depth - 1
         /\ \A k \in (i + 1)..(j - 1) : items[k].depth # items[j].depth - 1

WellFormed(items) ==
  \A j \in 1..Len(items) :
    /\ j = 1 => items[j].depth = 1
    /\ j > 1 => items[j].depth <= items[j - 1].depth + 1
    /\ items[j].depth > 1 =>
         /\ \E i \in 1..(j - 1) : items[i].depth = items[j].depth - 1
         /\ items[ParentIndex(items, j)].nodeType = "element"

KidsOf(items, i) ==
  LET all == [j \in 1..Len(items) |-> j]
      mine == SelectSeq(all, LAMBDA j : ParentIndex(items, j) = i)
  IN [k \in 1..Len(mine) |-> mine[k] + 1]

BuildDom(items) ==
  <<[NewNode("fragment", <<>>, <<>>, 0) EXCEPT !.kids = KidsOf(items, 0)]>>
  \o [j \in 1..Len(items) |->
        [NewNode(items[j].nodeType, items[j].data, items[j].attrs,
                 ParentIndex(items, j) + 1)
           EXCEPT !.kids = KidsOf(items, j)]]

Text(depth, data) ==
  [depth |-> depth, nodeType |-> "text", data |-> data, attrs |-> <<>>]

Element(depth, attrs) ==
  [depth |-> depth, nodeType |-> "element", data |-> <<>>, attrs |-> attrs]

Comment(depth) ==
  [depth |-> depth, nodeType |-> "comment", data |-> <<>>, attrs |-> <<>>]

Attr(name, value) == [name |-> name, value |-> value]

Placeholder(expression) == <<"{">> \o expression \o <<"}">>

\* the literal segments of the source texts
Literals == {<<>>, <<"a">>}

\* the expression of the k-th placeholder of a source text
PlaceholderName(k) == <<"p", Digit(k)>>

\* the texts s0{e1}s1...{en}sn with every si a literal
RECURSIVE TextsWith(_)
TextsWith(n) ==
  IF n = 0 THEN Literals
  ELSE {t \o Placeholder(PlaceholderName(n)) \o l : t \in TextsWith(n - 1), l \in Literals}

SourceTexts == UNION {TextsWith(n) : n \in 0..MaxPlaceholders}

\* the attribute lists of the source elements: none, one bound attribute, a
\* static attribute before a bound boolean attribute, two bound attributes
SourceAttrs ==
  {<<>>,
   <<Attr(<<"t">>, Placeholder(<<"q">>))>>,
   <<Attr(<<"s">>, <<"v">>), Attr(<<"?", "b">>, Placeholder(<<"q">>))>>,
   <<Attr(<<".", "p">>, Placeholder(<<"q">>)), Attr(<<"t">>, Placeholder(<<"r">>))>>}

SourceItems ==
  UNION {{Text(dp, t) : t \in SourceTexts}
         \cup {Element(dp, as) : as \in SourceAttrs}
         \cup {Comment(dp)} : dp \in 1..MaxNodes}

TreesUpTo(size) ==
  {items \in UNION {[1..n -> SourceItems] : n \in 0..size} : WellFormed(items)}

SourceTrees == TreesUpTo(MaxNodes)

(***************************************************************************)
(* new Template(template): parse (index.js 240-331), in steps.             *)
(***************************************************************************)
\* a checkForEmptyNode that counts the empty node it sets aside
checkForEmptyNodeCounting(d, n, index, empties) ==
  IF d[n].data = <<>>
  THEN [nodeIndex |-> index + 1, emptyNodes |-> Append(empties, n)]
  ELSE [nodeIndex |-> index + 1, emptyNodes |-> empties]

\* a checkForEmptyNode that sets no node aside
checkForEmptyNodeKeeping(d, n, index, empties) ==
  [nodeIndex |-> index + 1, emptyNodes |-> empties]

\* checkForEmptyNode() on node n: the new nodeIndex and emptyNodes
checkForEmptyNode(d, n, index, empties) ==
  IF d[n].data = <<>>
  THEN [nodeIndex |-> index, emptyNodes |-> Append(empties, n)]
  ELSE [nodeIndex |-> index + 1, emptyNodes |-> empties]

\* addPart(part) with nodeIndex = index
addPart(table, index, part) ==
  [i \in DOMAIN table \cup {index} |->
     IF i = index THEN Append(PartsAt(table, i), part) ELSE table[i]]

\* the state parse() is in after the first pass of its loop over the
\* fragment root, which is neither a text node nor an element
ParseStart(d, n) ==
  /\ dom = d
  /\ limit = n
  /\ pc = "next"
  /\ node = content
  /\ nodeIndex = 0
  /\ parts = <<>>
  /\ emptyNodes = <<>>
  /\ attrNames = <<>>
  /\ attrPos = 0
  /\ exprLast = 0
  /\ execLast = 0
  /\ staleScan = FALSE
  /\ registered = <<>>
  /\ instances = <<>>
  /\ latest = <<>>
  /\ lastCall = [inst |-> 0, context |-> <<>>, threw |-> FALSE, muts |-> <<>>,
                 calls |-> <<>>, visited |-> 0, fresh |-> {}]
  /\ tick = 0
  /\ original = d

runtime == <<limit, instances, latest, lastCall, tick, execLast, original>>

\* extractNodeAfterExpression(), once walker.nextNode() has answered n2 and
\* checkForEmptyNode() c2; expressionMatcher.lastIndex = 0
afterExpressionNode(c1, n1, d2, part, n2, c2) ==
  /\ dom' = d2
  /\ node' = n2
  /\ parts' = addPart(parts, c1.nodeIndex, part)
  /\ registered' = Append(registered,
                          [nodeIndex |-> c1.nodeIndex, node |-> n1, part |-> part])
  /\ nodeIndex' = c2.nodeIndex
  /\ emptyNodes' = c2.emptyNodes
  /\ exprLast' = 0
  /\ pc' = "text"

\* extractNodeAfterExpression(): node = walker.nextNode(); checkForEmptyNode()
extractNodeAfterExpression(c1, n1, d2, part, n2) ==
  \E c2 \in {checkForEmptyNode(d2, n2, c1.nodeIndex, c1.emptyNodes)} :
    afterExpressionNode(c1, n1, d2, part, n2, c2)

\* extractExpressionNode(match, expression), once the node n1 is split and
\* emptied (tree d2)
expressionNodeExtracted(search, c1, n1, d2) ==
  \E n2 \in {nextNode(d2, content, n1)} :
    extractNodeAfterExpression(c1, n1, d2,
                               [type |-> textNode, expression |-> search.group1,
                                name |-> <<>>],
                               n2)

\* extractExpressionNode(match, expression): node = walker.nextNode() has
\* answered n1
extractExpressionNode(search, d1, c1, n1) ==
  \E d2 \in {setTextContent(splitText(d1, n1, Len(search.match)), n1, <<>>)} :
    expressionNodeExtracted(search, c1, n1, d2)

\* extractNodeBeforeExpression(offset), once node.splitText(offset) has made
\* the tree d1
extractNodeBeforeExpression(search, d1) ==
  \E c1 \in {checkForEmptyNode(d1, node, nodeIndex, emptyNodes)},
     n1 \in {nextNode(d1, content, node)} :
    extractExpressionNode(search, d1, c1, n1)

\* one pass of the loop of parseTextNode once exec() has answered search
scanned(search) ==
  IF ~search.found
  THEN /\ exprLast' = search.lastIndex
       /\ pc' = "next"
       /\ UNCHANGED <<dom, node, nodeIndex, parts, emptyNodes, registered>>
  ELSE \E d1 \in {splitText(dom, node, search.index)} :
         extractNodeBeforeExpression(search, d1)

\* one pass of the loop of parseTextNode: the exec() of its condition and,
\* on a match, its body.  Each intermediate value is bound once, as the one
\* element of a singleton, and handed on.
parseTextNode ==
  /\ pc = "text"
  /\ staleScan' = (staleScan \/ exprLast # 0)
  /\ \E search \in {expressionMatcherExec(dom[node].data, exprLast)} :
       scanned(search)
  /\ UNCHANGED <<attrNames, attrPos>>
  /\ UNCHANGED runtime

\* a parseAttributes that takes every bound attribute for a plain one
attributePartUnprefixed(name, expression) ==
  [type |-> attribute, expression |-> expression, name |-> name]

\* the descriptor parseAttributes registers for a bound attribute
attributePart(name, expression) ==
  LET prefix == Substring(name, 0, 1)
      rest == SubstringFrom(name, 1)
  IN IF prefix = <<"?">>
     THEN [type |-> booleanAttribute, expression |-> expression, name |-> rest]
     ELSE IF prefix = <<".">>
     THEN [type |-> property, expression |-> expression, name |-> rest]
     ELSE [type |-> attribute, expression |-> expression, name |-> name]

\* one call of the forEach callback of parseAttributes
parseAttributes ==
  /\ pc = "attrs"
  /\ LET name == attrNames[attrPos]
         search == expressionMatcherExec(getAttribute(dom, node, name), exprLast)
         part == attributePart(name, search.group1)
     IN /\ staleScan' = (staleScan \/ exprLast # 0)
        /\ IF search.found
           THEN /\ parts' = addPart(parts, nodeIndex, part)
                /\ registered' = Append(registered,
                                        [nodeIndex |-> nodeIndex, node |-> node,
                                         part |-> part])
                /\ dom' = removeAttribute(dom, node, name)
           ELSE UNCHANGED <<parts, registered, dom>>
        /\ exprLast' = 0
  /\ attrPos' = attrPos + 1
  /\ pc' = IF attrPos = Len(attrNames) THEN "next" ELSE "attrs"
  /\ UNCHANGED <<node, nodeIndex, emptyNodes, attrNames>>
  /\ UNCHANGED runtime

\* the end of a pass of the main loop (nodeIndex++; node = walker.nextNode())
\* and the start of the next one
walkNext ==
  /\ pc = "next"
  /\ LET n == nextNode(dom, content, node)
     IN /\ node' = n
        /\ nodeIndex' = nodeIndex + 1
        /\ IF n = 0
           THEN pc' = "remove" /\ UNCHANGED <<attrNames, attrPos>>
           ELSE IF dom[n].nodeType = "text"
           THEN pc' = "text" /\ UNCHANGED <<attrNames, attrPos>>
           ELSE /\ attrNames' = getAttributeNames(dom, n)
                /\ attrPos' = 1
                /\ pc' = IF dom[n].attrs = <<>> THEN "next" ELSE "attrs"
  /\ UNCHANGED <<dom, parts, emptyNodes, exprLast, staleScan, registered>>
  /\ UNCHANGED runtime

RECURSIVE RemoveAll(_, _)
RemoveAll(d, ns) == IF ns = <<>> THEN d ELSE RemoveAll(removeNode(d, Head(ns)), Tail(ns))

\* removeEmptyNodes(); return parts
removeEmptyNodes ==
  /\ pc = "remove"
  /\ dom' = RemoveAll(dom, emptyNodes)
  /\ pc' = "done"
  /\ UNCHANGED <<node, nodeIndex, parts, emptyNodes, attrNames, attrPos, exprLast,
                 staleScan, registered>>
  /\ UNCHANGED runtime

(***************************************************************************)
(* Template.createInstance and TemplateInstance.update (index.js 188-210).  *)
(***************************************************************************)
compiler == <<pc, node, nodeIndex, parts, emptyNodes, attrNames, attrPos, exprLast,
              registered, limit, original>>

\* context with the keys of patch overwritten
Merge(context, patch) ==
  [k \in DOMAIN context \cup DOMAIN patch |->
     IF k \in DOMAIN patch THEN patch[k] ELSE context[k]]

\* new TemplateInstance(content, parts, initialContext) once the constructor
\* has appended the content (this: the new fragment) and its update, if any,
\* has answered u
constructed(given, initialContext, this, u) ==
  /\ IF u.threw
     THEN \* the constructor threw: the caller gets no instance
          UNCHANGED <<dom, instances, latest>>
     ELSE /\ dom' = u.dom
          /\ instances' = Append(instances, [root |-> this, parts |-> u.parts])
          /\ latest' = Append(latest, IF given THEN initialContext ELSE <<>>)
  /\ IF given
     THEN /\ lastCall' = [inst |-> IF u.threw THEN 0 ELSE Len(instances) + 1,
                          context |-> initialContext, threw |-> u.threw,
                          muts |-> u.muts, calls |-> u.calls,
                          visited |-> u.visited,
                          fresh |-> {k \in 1..Len(u.parts) : u.parts[k].fed}]
          /\ tick' = 1 - tick
     ELSE UNCHANGED <<lastCall, tick>>

\* initialContext && this.update(initialContext)
initialUpdate(given, initialContext, ps, d) ==
  IF given THEN update(ps, d, initialContext)
  ELSE [parts |-> ps, dom |-> d, threw |-> FALSE, muts |-> <<>>, calls |-> <<>>,
        visited |-> 0]

\* new TemplateInstance(content, parts, initialContext)
TemplateInstance(given, initialContext, made, appended) ==
  /\ execLast' = made.lastIndex
  /\ staleScan' = (staleScan \/ made.stale)
  /\ constructed(given, initialContext, appended.this,
                 initialUpdate(given, initialContext, made.parts, appended.dom))

\* createInstance once importNode has answered imported
instantiate(given, initialContext, imported) ==
  TemplateInstance(given, initialContext,
                   instantiateParts(imported.dom, imported.content, parts, execLast),
                   appendContent(imported.dom, imported.content))

\* template.createInstance(initialContext); given: an initialContext was passed
createInstance(given, initialContext) ==
  /\ pc = "done"
  /\ Len(instances) < limit
  /\ instantiate(given, initialContext, importNode(dom, content))
  /\ UNCHANGED compiler

\* instance.update(context) once the forEach has answered u
updated(i, context, u) ==
  /\ dom' = u.dom
  /\ instances' = [instances EXCEPT ![i].parts = u.parts]
  /\ latest' = [latest EXCEPT ![i] = Merge(@, context)]
  /\ lastCall' = [inst |-> i, context |-> context, threw |-> u.threw,
                  muts |-> u.muts, calls |-> u.calls, visited |-> u.visited,
                  fresh |-> {k \in 1..Len(u.parts) :
                               u.parts[k].fed /\ ~instances[i].parts[k].fed}]
  /\ tick' = 1 - tick

\* instance.update(context) on the i-th instance
updateInstance(i, context) ==
  /\ pc = "done"
  /\ i \in 1..Len(instances)
  /\ updated(i, context, update(instances[i].parts, dom, context))
  /\ UNCHANGED <<execLast, staleScan>>
  /\ UNCHANGED compiler

(***************************************************************************)
(* The contexts a caller passes: any subset of the keys the template's     *)
(* expressions look up, a function under a function key, a number under a  *)
(* parameter key, and a string, a number, undefined, NaN or true under a    *)
(* static key.                                                             *)
(***************************************************************************)
Descriptors == UNION {Range(parts[i]) : i \in DOMAIN parts}

Evaluators == {createExpression(dsc.expression, 0).expr : dsc \in Descriptors}

FunctionKeys == {e.functionName : e \in {x \in Evaluators : x.kind = "dynamic"}}

ParamKeys == UNION {Range(e.params) : e \in {x \in Evaluators : x.kind = "dynamic"}}

StaticKeys == {e.expression : e \in {x \in Evaluators : x.kind = "static"}}

FunctionValues == {Fn("add"), Fn("sub")}

ParamValues == {Num(1), Num(2), Num(5)}

StaticValues == {Undefined, Str(<<>>), Str(<<"v">>), Num(1), NaN, Bool(TRUE)}

KeyValues(k) ==
  IF k \in FunctionKeys THEN FunctionValues
  ELSE IF k \in ParamKeys THEN ParamValues
  ELSE StaticValues

RECURSIVE ContextsOver(_)
ContextsOver(keys) ==
  IF keys = {} THEN {<<>>}
  ELSE LET k == CHOOSE x \in keys : TRUE
           rest == ContextsOver(keys \ {k})
       IN rest \cup {Merge(c, [x \in {k} |-> v]) : c \in rest, v \in KeyValues(k)}

Contexts == ContextsOver(FunctionKeys \cup ParamKeys \cup StaticKeys)

(***************************************************************************)
(* The templates of the runtime scenario.                                  *)
(***************************************************************************)
Call2(f, a, b) == f \o <<"(">> \o a \o <<",">> \o b \o <<")">>

RunSources ==
  {\* <e t="{x}" ?b="{x}" .p="{x}">{x}</e>
   <<Element(1, <<Attr(<<"t">>, Placeholder(<<"x">>)),
                  Attr(<<"?", "b">>, Placeholder(<<"x">>)),
                  Attr(<<".", "p">>, Placeholder(<<"x">>))>>),
     Text(2, Placeholder(<<"x">>))>>,
   \* {f(a,b)}
   <<Text(1, Placeholder(Call2(<<"f">>, <<"a">>, <<"b">>)))>>,
   \* {f(a)}{x}
   <<Text(1, Placeholder(<<"f", "(", "a", ")">>) \o Placeholder(<<"x">>))>>,
   \* <e .p="{f(2,1)}"></e>
   <<Element(1, <<Attr(<<".", "p">>, Placeholder(Call2(<<"f">>, <<"2">>, <<"1">>)))>>)>>,
   \* {f(a,a)}
   <<Text(1, Placeholder(Call2(<<"f">>, <<"a">>, <<"a">>)))>>,
   \* {f()}
   <<Text(1, Placeholder(<<"f", "(", ")">>))>>,
   \* {f(a)}<e ?b="{x}"></e>
   <<Text(1, Placeholder(<<"f", "(", "a", ")">>)),
     Element(1, <<Attr(<<"?", "b">>, Placeholder(<<"x">>))>>)>>}

(***************************************************************************)
(* The templates of the scenario with several instances of one template.   *)
(***************************************************************************)
SharedSources ==
  {\* <e .p="{x}">{x}</e>
   <<Element(1, <<Attr(<<".", "p">>, Placeholder(<<"x">>))>>),
     Text(2, Placeholder(<<"x">>))>>,
   \* {f(a)}
   <<Text(1, Placeholder(<<"f", "(", "a", ")">>))>>}

(***************************************************************************)
(* The templates of the expression scenario: <e t="{e}">{e}</e> for every  *)
(* expression e of at most MaxExprLen characters.                          *)
(***************************************************************************)
ExprChars == {"f", "a", "(", ")", ",", " "}

ExprStrings == UNION {[1..n -> ExprChars] : n \in 1..MaxExprLen}

ExprSources ==
  {<<Element(1, <<Attr(<<"t">>, Placeholder(e))>>), Text(2, Placeholder(e))>> :
     e \in ExprStrings}

(***************************************************************************)
(* The standalone module src/src/template.js: the same parse and           *)
(* instantiateParts (template.js 100-212 are index.js 219-331), parts that *)
(* look their expression up in the context themselves and no expression    *)
(* objects.  A part is [type, node, expression, value, name] with          *)
(* expression the text between the braces and value this._value.           *)
(***************************************************************************)
\* new PartConstructor(node, params) of template.js
TplPart(n, descriptor) ==
  [type |-> descriptor.type, node |-> n, expression |-> descriptor.expression,
   value |-> Sym, name |-> descriptor.name]

\* instantiateParts(content, parts) of template.js
TplInstantiateParts(d, root, table) ==
  LET bindings == BindingsFrom(Walk(d, root), table, 1)
  IN [k \in 1..Len(bindings) |-> TplPart(bindings[k].node, bindings[k].descriptor)]

\* TemplatePart._shouldUpdate(context) of template.js
TplShouldUpdate(part, context) ==
  In(part.expression, context) /\ ~StrictEquals(context[part.expression], part.value)

\* _applyChanges(value) of the part classes of template.js
TplApplyChanges(part, d, value) ==
  CASE part.type = textNode ->
         setTextContent(d, part.node,
                        ToString(IF Truthy(value) THEN value ELSE Str(<<>>)))
    [] part.type = attribute ->
         setAttribute(d, part.node, part.name,
                      ToString(IF Truthy(value) THEN value ELSE Str(<<>>)))
    [] part.type = booleanAttribute ->
         toggleAttribute(d, part.node, part.name, Truthy(value))
    [] OTHER -> setProperty(d, part.node, part.name, value)

\* TemplateInstance.update(context) of template.js from part k on: the tree
\* afterwards and the parts that mutated their node; no part is changed
RECURSIVE TplUpdateFrom(_, _, _, _, _)
TplUpdateFrom(ps, d, context, k, muts) ==
  IF k > Len(ps)
  THEN [parts |-> ps, dom |-> d, threw |-> FALSE, muts |-> muts, calls |-> <<>>,
        visited |-> Len(ps)]
  ELSE IF TplShouldUpdate(ps[k], context)
  THEN TplUpdateFrom(ps, TplApplyChanges(ps[k], d, context[ps[k].expression]),
                     context, k + 1, Append(muts, k))
  ELSE TplUpdateFrom(ps, d, context, k + 1, muts)

TplUpdate(ps, d, context) == TplUpdateFrom(ps, d, context, 1, <<>>)

\* new TemplateInstance(content, parts, initialContext) of template.js once
\* its update, if any, has answered u
TplConstructed(given, initialContext, this, u) ==
  /\ dom' = u.dom
  /\ instances' = Append(instances, [root |-> this, parts |-> u.parts])
  /\ latest' = Append(latest, IF given THEN initialContext ELSE <<>>)
  /\ IF given
     THEN /\ lastCall' = [inst |-> Len(instances) + 1, context |-> initialContext,
                          threw |-> FALSE, muts |-> u.muts, calls |-> <<>>,
                          visited |-> u.visited, fresh |-> {}]
          /\ tick' = 1 - tick
     ELSE UNCHANGED <<lastCall, tick>>

\* createInstance of template.js once the content is copied and appended
TplInstantiate(given, initialContext, ps, appended) ==
  TplConstructed(given, initialContext, appended.this,
                 IF given THEN TplUpdate(ps, appended.dom, initialContext)
                 ELSE [parts |-> ps, dom |-> appended.dom, muts |-> <<>>,
                       visited |-> 0])

\* template.createInstance(initialContext) of template.js
TplCreateInstance(given, initialContext) ==
  /\ pc = "done"
  /\ Len(instances) < limit
  /\ \E imported \in {importNode(dom, content)} :
       TplInstantiate(given, initialContext,
                      TplInstantiateParts(imported.dom, imported.content, parts),
                      appendContent(imported.dom, imported.content))
  /\ UNCHANGED <<execLast, staleScan>>
  /\ UNCHANGED compiler

\* instance.update(context) of template.js on the i-th instance
TplUpdateInstance(i, context) ==
  /\ pc = "done"
  /\ i \in 1..Len(instances)
  /\ \E u \in {TplUpdate(instances[i].parts, dom, context)} :
       /\ dom' = u.dom
       /\ instances' = [instances EXCEPT ![i].parts = u.parts]
       /\ lastCall' = [inst |-> i, context |-> context, threw |-> FALSE,
                       muts |-> u.muts, calls |-> <<>>, visited |-> u.visited,
                       fresh |-> {}]
  /\ latest' = [latest EXCEPT ![i] = Merge(@, context)]
  /\ tick' = 1 - tick
  /\ UNCHANGED <<execLast, staleScan>>
  /\ UNCHANGED compiler

\* the contexts given to the instances of template.js: any subset of the
\* expressions of the template as keys
TplKeys == {dsc.expression : dsc \in Descriptors}

TplContexts ==
  UNION {[keys -> StaticValues] : keys \in SUBSET TplKeys}

\* the templates of the template.js scenario
TplSources ==
  {\* <e t="{x}" ?b="{x}" .p="{x}">{x}</e>
   <<Element(1, <<Attr(<<"t">>, Placeholder(<<"x">>)),
                  Attr(<<"?", "b">>, Placeholder(<<"x">>)),
                  Attr(<<".", "p">>, Placeholder(<<"x">>))>>),
     Text(2, Placeholder(<<"x">>))>>,
   \* {x}a{y}
   <<Text(1, Placeholder(<<"x">>) \o <<"a">> \o Placeholder(<<"y">>))>>}

(***************************************************************************)
(* The templates of the attribute scenario: an element with up to MaxAttrs *)
(* attributes of different names, alone or after a text with a             *)
(* placeholder.                                                            *)
(***************************************************************************)
AttrSourceNames == {<<"t">>, <<"?", "b">>, <<".", "p">>, <<"?">>}

AttrSourceValues ==
  {<<"v">>, Placeholder(<<"q">>), <<"a">> \o Placeholder(<<"q">>) \o <<"b">>,
   <<"{", "}">>, Placeholder(<<"q">>) \o Placeholder(<<"r">>)}

AttrLists ==
  {as \in UNION {[1..n -> [name : AttrSourceNames, value : AttrSourceValues]] :
                   n \in 1..MaxAttrs} :
     \A i, j \in 1..Len(as) : i # j => as[i].name # as[j].name}

AttrSources ==
  {before \o <<Element(1, as)>> :
     before \in {<<>>, <<Text(1, Placeholder(PlaceholderName(1)))>>},
     as \in AttrLists}

(***************************************************************************)
(* Specifications.                                                         *)
(***************************************************************************)
Init == \E source \in RunSources : ParseStart(BuildDom(source), RunInstances)

InitParse == \E source \in SourceTrees : ParseStart(BuildDom(source), MaxInstances)

InitExpr == \E source \in ExprSources : ParseStart(BuildDom(source), MaxInstances)

InitAttrs == \E source \in AttrSources : ParseStart(BuildDom(source), RunInstances)

InitCompile ==
  \E source \in TreesUpTo(MaxWalkNodes) : ParseStart(BuildDom(source), RunInstances)

InitTemplate ==
  \E source \in TplSources : ParseStart(BuildDom(source), RunInstances)

InitShared == \E source \in SharedSources : ParseStart(BuildDom(source), MaxInstances)

Compile ==
  \/ parseTextNode
  \/ parseAttributes
  \/ walkNext
  \/ removeEmptyNodes

Next ==
  \/ Compile
  \/ createInstance(FALSE, <<>>)
  \/ \E context \in Contexts : createInstance(TRUE, context)
  \/ \E i \in 1..MaxInstances, context \in Contexts : updateInstance(i, context)

NextParse ==
  \/ Compile
  \/ createInstance(FALSE, <<>>)

NextTemplate ==
  \/ Compile
  \/ TplCreateInstance(FALSE, <<>>)
  \/ \E context \in TplContexts : TplCreateInstance(TRUE, context)
  \/ \E i \in 1..MaxInstances, context \in TplContexts : TplUpdateInstance(i, context)

\* new Template, createInstance and update on the templates of RunSources
Spec == Init /\ [][Next]_vars

\* new Template, createInstance and update on the templates of SharedSources,
\* with up to MaxInstances instances of a template
SpecShared == InitShared /\ [][Next]_vars

\* template.js: new Template, createInstance and update on TplSources
SpecTemplate == InitTemplate /\ [][NextTemplate]_vars

\* new Template and createInstance() on the templates of AttrSources
SpecAttrs == InitAttrs /\ [][NextParse]_vars

\* new Template on every source tree of up to MaxWalkNodes nodes: parse alone,
\* which runs to completion once called (synchronous code, no suspension point)
SpecCompile == InitCompile /\ [][Compile]_vars /\ WF_vars(Compile)

\* new Template and createInstance() on every source tree of the bounds
SpecParse == InitParse /\ [][NextParse]_vars

\* new Template and createInstance() on <e t="{e}">{e}</e>, for every expression e
SpecExpr == InitExpr /\ [][NextParse]_vars

(***************************************************************************)
(* Properties.                                                             *)
(***************************************************************************)
Compiled == pc = "done"

\* the nodes instantiateParts visits on the tree of an instance, in order
WalkOf(inst) == Walk(dom, inst.root)

\* C1: the node index under which parse registered a descriptor is the
\* position at which the walk over a copy of the compiled tree reaches the
\* copy of the node the descriptor was registered for, so the k-th part of an
\* instance is bound to the copy of the node of the k-th registration: the
\* emptied placeholder segment for a text part, the element for the others.
C1_IndexAlignment ==
  \A i \in 1..Len(instances) :
    /\ Len(instances[i].parts) = Len(registered)
    /\ \A k \in 1..Len(registered) :
         LET r == registered[k]
             w == WalkOf(instances[i])
             bound == instances[i].parts[k].node
         IN /\ r.nodeIndex + 1 <= Len(w)
            /\ dom[w[r.nodeIndex + 1]].cloneOf = r.node
            /\ dom[bound].cloneOf = r.node
            /\ instances[i].parts[k].type = r.part.type
            /\ r.part.type = textNode =>
                 dom[bound].nodeType = "text" /\ dom[bound].data = <<>>
            /\ r.part.type # textNode => dom[bound].nodeType = "element"

\* an instance of a tree whose first text starts with a placeholder (an empty
\* segment was set aside) and ends in an element with a bound attribute
C1_Witness ==
  /\ Len(instances) >= 1
  /\ Len(registered) >= 3
  /\ Len(emptyNodes) >= 2
  /\ registered[1].part.type = textNode
  /\ registered[Len(registered)].part.type # textNode

\* the value the latest patches of instance i supplied under key
Latest(i, key) == IF key \in DOMAIN latest[i] THEN latest[i][key] ELSE Undefined

\* what the target of a part shows of the value v applied to it
Shows(part, v) ==
  CASE part.type = textNode -> dom[part.node].data = ToString(v)
    [] part.type = attribute ->
         /\ hasAttribute(dom, part.node, part.name)
         /\ getAttribute(dom, part.node, part.name) = ToString(v)
    [] part.type = booleanAttribute -> hasAttribute(dom, part.node, part.name) = v.b
    [] OTHER -> /\ HasKey(dom[part.node].props, part.name)
                /\ Get(dom[part.node].props, part.name) = v

\* C2: for every part on a static key that some patch has supplied, the
\* target of the part shows the cast of the value most recently supplied
\* under that key.
C2_StaticValueApplied ==
  \A i \in 1..Len(instances) :
    \A k \in 1..Len(instances[i].parts) :
      LET part == instances[i].parts[k]
      IN (part.expression.kind = "static"
          /\ part.expression.expression \in DOMAIN latest[i])
         => Shows(part, cast(part.type, latest[i][part.expression.expression]))

\* the step is an update() call on the existing instance i
UpdateOf(i) ==
  /\ tick' # tick
  /\ i \in 1..Len(instances)
  /\ lastCall'.inst = i

\* C3: a part mutates its node in an update only if the patch holds one of
\* its keys and the cast value it applies differs from the one it applied
\* last; an update with the context of the update just before it on the same
\* instance mutates nothing.
C3_NoRedundantMutation ==
  [][\A i \in 1..Len(instances) :
       UpdateOf(i) =>
         /\ \A j \in 1..Len(lastCall'.muts) :
              LET k == lastCall'.muts[j]
              IN /\ KeysOf(instances[i].parts[k].expression)
                      \cap DOMAIN lastCall'.context # {}
                 /\ instances'[i].parts[k].value # instances[i].parts[k].value
         /\ (lastCall.inst = i /\ lastCall.context = lastCall'.context)
              => lastCall'.muts = <<>>]_vars

C5_UpdateNeverThrows == ~lastCall.threw

\* the parameters written in the expression of a dynamic evaluator
DeclaredParams(e) == IF e.params = <<<<>>>> THEN <<>> ELSE e.params

\* C6: every function call of the last update passed one argument per
\* declared parameter, the j-th argument being the stored value of the j-th
\* declared parameter.
C6_ArgumentsInDeclaredOrder ==
  lastCall.inst \in 1..Len(instances) =>
    \A j \in 1..Len(lastCall.calls) :
      LET c == lastCall.calls[j]
          e == instances[lastCall.inst].parts[c.part].expression
      IN /\ Len(c.args) = Len(DeclaredParams(e))
         /\ \A n \in 1..Len(DeclaredParams(e)) :
              n <= Len(c.args) /\ c.args[n] = Latest(lastCall.inst, e.params[n])

\* the expression matches the function-call pattern
IsCall(expression) == executableExpressionExec(expression, 0).found

\* C7: the evaluator of a part whose expression is no function call is a
\* static one whose key is the expression without the white space around it.
C7_StaticKeyTrimmed ==
  \A i \in 1..Len(instances) :
    \A k \in 1..Len(instances[i].parts) :
      LET source == registered[k].part.expression
          e == instances[i].parts[k].expression
      IN ~IsCall(source) => e.kind = "static" /\ e.expression = Trim(source)

\* the parentheses of s match: none closes before it opens, all are closed
RECURSIVE DepthOk(_, _)
DepthOk(s, depth) ==
  IF s = <<>> THEN depth = 0
  ELSE IF Head(s) = "(" THEN DepthOk(Tail(s), depth + 1)
  ELSE IF Head(s) = ")" THEN depth > 0 /\ DepthOk(Tail(s), depth - 1)
  ELSE DepthOk(Tail(s), depth)

Balanced(s) == DepthOk(s, 0)

\* C8: the evaluator of a part whose expression has parentheses that do not
\* match is a static one whose key is the whole expression.
C8_UnbalancedIsStatic ==
  \A i \in 1..Len(instances) :
    \A k \in 1..Len(instances[i].parts) :
      LET source == registered[k].part.expression
          e == instances[i].parts[k].expression
      IN ~Balanced(source) => e.kind = "static" /\ e.expression = source

\* C9 as stated: the nodes of the parts of an instance are pairwise distinct.
C9_NodesPairwiseDistinct ==
  \A i \in 1..Len(instances) :
    \A j, k \in 1..Len(instances[i].parts) :
      j # k => instances[i].parts[j].node # instances[i].parts[k].node

\* C9: a text part shares its node with no other part of the instance; two
\* parts on one node are attribute, property or boolean parts of different
\* attributes of that element.
C9_SharedOnlyByAttributes ==
  \A i \in 1..Len(instances) :
    \A j, k \in 1..Len(instances[i].parts) :
      LET a == instances[i].parts[j]
          b == instances[i].parts[k]
      IN (j # k /\ a.node = b.node) =>
           /\ a.type # textNode
           /\ b.type # textNode
           /\ dom[a.node].nodeType = "element"
           /\ (a.type # b.type \/ a.name # b.name)

\* an instance with two parts on one element and a text part on its own node
C9_Witness ==
  \E i \in 1..Len(instances) :
    \E j, k, t \in 1..Len(instances[i].parts) :
      /\ j # k
      /\ instances[i].parts[j].node = instances[i].parts[k].node
      /\ instances[i].parts[t].type = textNode

\* the nodes of the tree of an instance
TreeOf(inst) == Range(Preorder(dom, inst.root))

\* C10: once compiled, the descriptor table and the template's tree never
\* change; a step that is not an update of instance i changes neither the
\* state of the parts of i nor a node of the tree of i.
C10_Isolation ==
  [][/\ Compiled =>
          /\ parts' = parts
          /\ \A n \in Range(Preorder(dom, content)) : dom'[n] = dom[n]
     /\ \A i \in 1..Len(instances) :
          ~UpdateOf(i) =>
            /\ instances'[i] = instances[i]
            /\ \A n \in TreeOf(instances[i]) : dom'[n] = dom[n]]_vars

\* two instances of one template, each with applied values, the last update
\* having mutated the tree of the first while the second shows another value
C10_Witness ==
  /\ Len(instances) = 2
  /\ lastCall.inst = 1
  /\ lastCall.muts # <<>>
  /\ \E k \in 1..Len(instances[2].parts) :
       /\ instances[2].parts[k].value # Sym
       /\ instances[2].parts[k].value # instances[1].parts[k].value

\* C18: every scan on expressionMatcher or executableExpression starts with
\* the cursor (lastIndex) at 0: no scan so far started elsewhere, and between
\* the steps of parse and the createInstance calls both cursors are 0.
C18_ScansStartAtZero ==
  /\ ~staleScan
  /\ exprLast = 0
  /\ execLast = 0

\* two instances of a template whose two parts have a function-call
\* expression, made after scans that matched
C18_Witness ==
  /\ Len(instances) = 2
  /\ Len(registered) = 2
  /\ \A k \in 1..2 : instances[2].parts[k].expression.kind = "dynamic"

\* the value holds a placeholder: "{", at least one character, "}"
HasPlaceholder(value) ==
  \E i, j \in 1..Len(value) : j >= i + 2 /\ value[i] = "{" /\ value[j] = "}"

\* the kind and the target the prefix of an attribute name stands for
KindOf(name) ==
  IF Head(name) = "?" THEN [type |-> booleanAttribute, name |-> Tail(name)]
  ELSE IF Head(name) = "." THEN [type |-> property, name |-> Tail(name)]
  ELSE [type |-> attribute, name |-> name]

\* the index of node n of the compiled tree: its position in the walk
IndexIn(d, n) == IndexOf(Walk(d, content), n) - 1

\* C11: once parse has returned, the descriptors under the index of an
\* element are, in attribute order, one per attribute of the source element
\* whose value held a placeholder, of the kind and with the target its name
\* stands for; exactly those attributes are gone from the element and the
\* others are still on it.
C11_AttributeDescriptors ==
  Compiled =>
    \A n \in 1..Len(original) :
      original[n].nodeType = "element" =>
        LET bound == SelectSeq(original[n].attrs, LAMBDA a : HasPlaceholder(a.value))
            kept == SelectSeq(original[n].attrs, LAMBDA a : ~HasPlaceholder(a.value))
            here == PartsAt(parts, IndexIn(dom, n))
        IN /\ dom[n].attrs = kept
           /\ Len(here) = Len(bound)
           /\ \A k \in 1..Len(bound) :
                /\ k <= Len(here)
                /\ here[k].type = KindOf(bound[k].name).type
                /\ here[k].name = KindOf(bound[k].name).name

\* a compiled element, after a text with a placeholder, that had a bound
\* boolean attribute and keeps an attribute without a placeholder
C11_Witness ==
  /\ Compiled
  /\ Len(registered) = 2
  /\ registered[1].part.type = textNode
  /\ registered[2].part.type = booleanAttribute
  /\ registered[2].part.name = <<"b">>
  /\ dom[registered[2].node].attrs # <<>>
  /\ Len(original[registered[2].node].attrs) = 2

\* the segments s0, {e1}, s1, ..., {en}, sn of a text, in order, as
\* [ph: it is a placeholder, text: the literal or the expression, id: 0]
RECURSIVE SegmentsFrom(_, _)
SegmentsFrom(s, lit) ==
  IF s = <<>> THEN <<[ph |-> FALSE, text |-> lit, id |-> 0]>>
  ELSE IF Head(s) = "{" /\ \E j \in 2..Len(s) : s[j] = "}"
  THEN LET j == CHOOSE a \in 2..Len(s) :
                  s[a] = "}" /\ \A b \in 2..(a - 1) : s[b] # "}"
       IN <<[ph |-> FALSE, text |-> lit, id |-> 0],
            [ph |-> TRUE, text |-> SubSeq(s, 2, j - 1), id |-> 0]>>
          \o SegmentsFrom(SubSeq(s, j + 1, Len(s)), <<>>)
  ELSE SegmentsFrom(Tail(s), Append(lit, Head(s)))

SegmentsOf(s) == SegmentsFrom(s, <<>>)

PlaceholdersOf(s) == SelectSeq(SegmentsOf(s), LAMBDA g : g.ph)

\* what should stand in the place of the source node n once parse returned
ExpectedFor(n) ==
  IF original[n].nodeType # "text"
  THEN <<[ph |-> FALSE, text |-> <<>>, id |-> n]>>
  ELSE IF PlaceholdersOf(original[n].data) = <<>>
  THEN <<[ph |-> FALSE, text |-> original[n].data, id |-> 0]>>
  ELSE SelectSeq(SegmentsOf(original[n].data), LAMBDA g : g.ph \/ g.text # <<>>)

RECURSIVE ExpectedAll(_)
ExpectedAll(ns) ==
  IF ns = <<>> THEN <<>> ELSE ExpectedFor(Head(ns)) \o ExpectedAll(Tail(ns))

\* the text registrations of parse, in order
TextRegistrations == SelectSeq(registered, LAMBDA r : r.part.type = textNode)

\* what stands at the child c of a compiled node
SegmentAt(c) ==
  IF dom[c].nodeType # "text" THEN [ph |-> FALSE, text |-> <<>>, id |-> c]
  ELSE IF \E k \in 1..Len(registered) : registered[k].node = c
  THEN [ph |-> TRUE,
        text |-> registered[CHOOSE k \in 1..Len(registered) :
                              registered[k].node = c].part.expression,
        id |-> 0]
  ELSE [ph |-> FALSE, text |-> dom[c].data, id |-> 0]

\* the expressions of the placeholders of the source texts, in document order
RECURSIVE ExpressionsOf(_)
ExpressionsOf(ns) ==
  IF ns = <<>> THEN <<>>
  ELSE (IF original[Head(ns)].nodeType = "text"
        THEN LET phs == PlaceholdersOf(original[Head(ns)].data)
             IN [k \in 1..Len(phs) |-> phs[k].text]
        ELSE <<>>) \o ExpressionsOf(Tail(ns))

\* C14: once parse has returned, the children of every node are, in order,
\* the source children with every text s0{e1}s1...{en}sn replaced by its
\* non-empty literals and one emptied segment per placeholder, the segment of
\* the k-th placeholder registered with expression ek; the text descriptors
\* are the placeholders of the source in document order; every node set
\* aside as empty is out of the tree and carries no descriptor.
C14_TextSegments ==
  Compiled =>
    /\ \A p \in 1..Len(original) :
         original[p].nodeType \in {"fragment", "element"} =>
           [i \in 1..Len(dom[p].kids) |-> SegmentAt(dom[p].kids[i])]
             = ExpectedAll(original[p].kids)
    /\ [k \in 1..Len(TextRegistrations) |-> TextRegistrations[k].part.expression]
         = ExpressionsOf(Preorder(original, content))
    /\ \A k \in 1..Len(registered) :
         /\ dom[registered[k].node].parent # 0
         /\ registered[k].part.type = textNode => dom[registered[k].node].data = <<>>
         /\ \A j \in 1..Len(registered) :
              (j # k /\ registered[k].part.type = textNode)
                => registered[j].node # registered[k].node
    /\ \A i \in 1..Len(emptyNodes) :
         /\ dom[emptyNodes[i]].parent = 0
         /\ \A k \in 1..Len(registered) : registered[k].node # emptyNodes[i]

\* a compiled tree that held the text a{p1}a (three segments stay) and the
\* text {p1}{p2} (its three empty literals were removed)
C14_Witness ==
  /\ Compiled
  /\ \E n \in 1..Len(original) :
       /\ original[n].data = <<"a">> \o Placeholder(PlaceholderName(1)) \o <<"a">>
       /\ original[n].nodeType = "text"
  /\ \E n \in 1..Len(original) :
       /\ original[n].data = Placeholder(PlaceholderName(1)) \o Placeholder(PlaceholderName(2))
       /\ original[n].nodeType = "text"
  /\ Len(emptyNodes) = 3

\* the position of node n in the document order of the tree d
OrderIn(d, n) == IndexOf(Preorder(d, content), n)

\* a step of parse moves on: a pass of the placeholder loop that found a
\* placeholder continues on a later node whose text is what followed the
\* placeholder, and registers a node not registered before; the main loop
\* goes to a later node of the tree or ends the walk
ParseAdvances ==
  /\ (pc = "text" /\ registered' # registered) =>
       /\ OrderIn(dom', node') > OrderIn(dom', node)
       /\ Len(dom'[node'].data) + 3 <= Len(dom[node].data)
       /\ dom'[node'].data
            = SubSeq(dom[node].data,
                     Len(dom[node].data) - Len(dom'[node'].data) + 1,
                     Len(dom[node].data))
       /\ \A k \in 1..Len(registered) :
            registered[k].node # registered'[Len(registered')].node
  /\ (pc = "next" /\ node' # 0) => OrderIn(dom, node') > OrderIn(dom, node)
  /\ (pc = "next" /\ node' = 0) => pc' = "remove"

\* C17: every step of parse moves on in the tree, and parse returns.
C17_ParseTerminates ==
  /\ [][ParseAdvances]_vars
  /\ <>Compiled

\* parse has returned after splitting two texts with two placeholders each
C17_Witness ==
  /\ Compiled
  /\ Len(TextRegistrations) = 4
  /\ Len(dom) >= Len(original) + 8

\* the step is an update() call on instance i, made by update() or by the
\* constructor, that called update() on its k-th part
PartUpdated(i, k) ==
  /\ tick' # tick
  /\ lastCall'.inst = i
  /\ k <= lastCall'.visited

\* what holds of a boolean part: when update() is called on it with a patch
\* holding its key, the attribute is on the node afterwards exactly if the
\* value of the key is truthy; no other step changes whether it is there
BooleanPartFollowsItsUpdates ==
  [][\A i \in 1..Len(instances') :
       \A k \in 1..Len(instances'[i].parts) :
         LET part == instances'[i].parts[k]
             flag == part.expression.expression
         IN (part.type = booleanAttribute /\ part.expression.kind = "static") =>
              IF PartUpdated(i, k) /\ flag \in DOMAIN lastCall'.context
              THEN hasAttribute(dom', part.node, part.name)
                     = Truthy(lastCall'.context[flag])
              ELSE i <= Len(instances) =>
                     hasAttribute(dom', part.node, part.name)
                       = hasAttribute(dom, part.node, part.name)]_vars

\* C12: for a boolean part on a static key that some patch has supplied, the
\* attribute is on the node exactly if the value most recently supplied under
\* the key is truthy; and an update whose patch omits the key leaves the
\* attribute as it was.
C12_BooleanAttribute ==
  [][\A i \in 1..Len(instances') :
       \A k \in 1..Len(instances'[i].parts) :
         LET part == instances'[i].parts[k]
             flag == part.expression.expression
         IN (part.type = booleanAttribute /\ part.expression.kind = "static") =>
              /\ flag \in DOMAIN latest'[i] =>
                   hasAttribute(dom', part.node, part.name)
                     = Truthy(latest'[i][flag])
              /\ (UpdateOf(i) /\ flag \notin DOMAIN lastCall'.context) =>
                   hasAttribute(dom', part.node, part.name)
                     = hasAttribute(dom, part.node, part.name)]_vars

\* the number of times part k is listed in muts
Mutations(muts, k) == Cardinality({j \in 1..Len(muts) : muts[j] = k})

\* what holds of a part on a static key: it mutates its node only if the
\* patch holds the key, and exactly once when update() is called on it for
\* the first time with the key in the patch
StaticPartFirstUpdate ==
  lastCall.inst \in 1..Len(instances) =>
    \A k \in 1..Len(instances[lastCall.inst].parts) :
      LET part == instances[lastCall.inst].parts[k]
      IN part.expression.kind = "static" =>
           /\ Mutations(lastCall.muts, k) > 0
                => part.expression.expression \in DOMAIN lastCall.context
           /\ k \in lastCall.fresh => Mutations(lastCall.muts, k) = 1

\* C13: in an update of an instance, a part on a static key mutates its node
\* only if the patch holds the key, and exactly once if the patch is the
\* first one given to the instance that holds the key.
C13_FirstUpdateApplies ==
  [][\A i \in 1..Len(instances) :
       UpdateOf(i) =>
         \A k \in 1..Len(instances[i].parts) :
           LET e == instances[i].parts[k].expression
           IN e.kind = "static" =>
                /\ e.expression \notin DOMAIN lastCall'.context
                     => Mutations(lastCall'.muts, k) = 0
                /\ (e.expression \in DOMAIN lastCall'.context
                    /\ e.expression \notin DOMAIN latest[i])
                     => Mutations(lastCall'.muts, k) = 1]_vars

\* C16: the last update call called update() on every part of the instance,
\* once each, in ascending order of the index parse registered them under
\* (parts of one element in registration order).
C16_EveryPartInOrder ==
  (lastCall.inst # 0 \/ lastCall.threw) =>
    /\ lastCall.visited = Len(registered)
    /\ \A j, k \in 1..Len(registered) :
         j < k => registered[j].nodeIndex <= registered[k].nodeIndex
    /\ \A j, k \in 1..Len(lastCall.muts) :
         j < k => lastCall.muts[j] < lastCall.muts[k]

\* C15: in template.js, an update with the context of the update just
\* before it on the same instance mutates no node.
C15_TemplateJsIdempotent ==
  [][\A i \in 1..Len(instances) :
       (UpdateOf(i) /\ lastCall.inst = i /\ lastCall.context = lastCall'.context)
         => lastCall'.muts = <<>>]_vars

\* template.js: every update mutates exactly the parts whose expression is a
\* key of its context, whatever was applied before (this._value is never
\* assigned after the constructor).
TemplateJsReappliesEveryKey ==
  lastCall.inst # 0 =>
    \A k \in 1..Len(instances[lastCall.inst].parts) :
      (k \in Range(lastCall.muts))
        <=> In(instances[lastCall.inst].parts[k].expression, lastCall.context)

====
